---- MODULE Spec2Model ----
(***************************************************************************)
(* VirtualizedList: the scroll-to-item animator of the component.          *)
(*                                                                         *)
(* State: the props the animator reads (items, scrollDuration), the refs   *)
(* (offsetHeightRef, scrollTopRef, listRef, animationDataRef), the         *)
(* memoised maxListOffset, the clock performance.now() and the queue of    *)
(* callbacks handed to requestAnimationFrame.  Each pending callback is a  *)
(* closure: it keeps the scrollDuration and maxListOffset of the render    *)
(* that created animateScroll.                                             *)
(*                                                                         *)
(* A render and the passive effect it schedules are two steps: React runs  *)
(* the effect in a later task, and a frame callback may run in between.    *)
(* React runs a pending effect before it renders again.                    *)
(*                                                                         *)
(* Numbers the frame computes (progress, eased time, scroll offsets) are   *)
(* exact rationals [n, d] with d > 0; NaN is the record with d = 0.        *)
(***************************************************************************)
EXTENDS Integers, Sequences, FiniteSets, TLC

VARIABLES
    items,            \* the items prop
    scrollDuration,   \* the scrollDuration prop
    offsetHeightRef,  \* offsetHeightRef.current
    listMounted,      \* listRef.current is set
    maxListOffset,    \* the memoised maxListOffset
    animationData,    \* animationDataRef.current
    scrollTopRef,     \* scrollTopRef.current, a number [n, d]
    now,              \* performance.now()
    frames,           \* callbacks pending in requestAnimationFrame, oldest first
    inFlight,         \* animations started minus onAnimationComplete calls
    pending,          \* <<scrollToId>> of a render whose effect has not run, or <<>>
    unmounted,        \* the component was unmounted
    last              \* the handler that ran last and what it computed

vars == <<items, scrollDuration, offsetHeightRef, listMounted, maxListOffset,
          animationData, scrollTopRef, now, frames, inFlight, pending, unmounted,
          last>>

(* ---------------------------- bounds ---------------------------------- *)

\* The clock is sampled MaxTicks times after 0, on a grid of 100 ms.
MaxTicks == 3

\* At most MaxLoops frame callbacks are pending at once.
MaxLoops == 2

Times == {100 * k : k \in 0..MaxTicks}

\* Viewport heights the container reports once it has measured itself.
Heights == {60}

\* Offsets a scroll event reports.
ScrollOffsets == {30}

\* Values of the scrollDuration prop.
Durations == {0, 200}

\* Values of the scrollToId prop: "0" is the first row, "9" is no row and no
\* property of an object, "constructor" is no row either, and the empty
\* string, falsy in JavaScript, is the identifier of the last row.
ScrollToIds == {"0", "3", "9", "constructor", ""}

(* ------------------------- numbers of the frame ------------------------ *)

\* animationData.animationStartTime = undefined
Undefined == -1

NaN == [n |-> 0, d |-> 0]

\* +Infinity, the quotient of a positive number by 0.
Infinity == [n |-> 1, d |-> 0]

IsNaN(v) == v.d = 0 /\ v.n = 0

Abs(x) == IF x < 0 THEN -x ELSE x

RECURSIVE GCD(_, _)
GCD(a, b) == IF b = 0 THEN a ELSE GCD(b, a % b)

\* The rational n/d (d # 0) in lowest terms with a positive denominator.
Rat(n, d) ==
    LET s == IF d < 0 THEN -1 ELSE 1
        g == GCD(Abs(n), Abs(d))
    IN  [n |-> (s * n) \div g, d |-> (s * d) \div g]

Num(x) == [n |-> x, d |-> 1]

\* a < b on numbers; any comparison with NaN is false.
Less(a, b) == ~IsNaN(a) /\ ~IsNaN(b) /\ a.n * b.d < b.n * a.d

\* Math.min(a, b)
MathMin(a, b) == IF IsNaN(a) \/ IsNaN(b) THEN NaN ELSE IF Less(b, a) THEN b ELSE a

\* a + b and a * b on finite numbers; NaN propagates.
Add(a, b) == IF IsNaN(a) \/ IsNaN(b) THEN NaN ELSE Rat(a.n * b.d + b.n * a.d, a.d * b.d)

Mul(a, b) == IF IsNaN(a) \/ IsNaN(b) THEN NaN ELSE Rat(a.n * b.n, a.d * b.d)

\* e / D for a number e >= 0 (or NaN) and an integer D: 0/0 is NaN, e/0 is
\* +Infinity for e > 0.
Div(e, D) ==
    IF IsNaN(e) THEN NaN
    ELSE IF D = 0 THEN (IF e.n = 0 THEN NaN ELSE Infinity)
    ELSE Rat(e.n, e.d * D)

Pow5(x) == x * x * x * x * x

\* The value of an expression evaluated once, as JavaScript evaluates the
\* argument of a call before the call: the element of a one-element set.
Value(S) == CHOOSE r \in S : TRUE

(* ------------------------------ items ---------------------------------- *)

\* generateItems(height, width, itemsCount): ids are "0", "1", ...
generateItems(height, itemsCount) ==
    [i \in 1..itemsCount |-> [id |-> ToString(i - 1), height |-> height]]

\* Five rows of heights 20, 30, 40, 10, 25; the identifier of the last one is
\* the empty string.
Scenario5 ==
    << [id |-> "0", height |-> 20], [id |-> "1", height |-> 30],
       [id |-> "2", height |-> 40], [id |-> "3", height |-> 10],
       [id |-> "", height |-> 25] >>

ItemLists == {Scenario5}

(* ----------------------- virtualized-list-service ---------------------- *)

\* One forward pass: the entry of the item at position i gets the running
\* offset before i, and the running offset grows by its height.
RECURSIVE NormalizePass(_, _, _, _)
NormalizePass(list, i, running, acc) ==
    IF i > Len(list) THEN acc
    ELSE LET entry == [item |-> list[i], index |-> i - 1,
                       height |-> list[i].height, offsetTop |-> running]
         IN  NormalizePass(list, i + 1, running + list[i].height,
                 [k \in DOMAIN acc \cup {list[i].id} |->
                     IF k = list[i].id THEN entry ELSE acc[k]])

getNormalizedItems(list) == NormalizePass(list, 1, 0, [k \in {} |-> 0])

\* max(0, offsetTop of the last item + its height - offsetHeight); 0 for an
\* empty index.
getMaxOffset(offsetHeight, normalizedItems) ==
    IF DOMAIN normalizedItems = {} THEN 0
    ELSE LET lastId == CHOOSE k \in DOMAIN normalizedItems :
                           \A j \in DOMAIN normalizedItems :
                               normalizedItems[j].index <= normalizedItems[k].index
             total == normalizedItems[lastId].offsetTop + normalizedItems[lastId].height
         IN  IF total - offsetHeight > 0 THEN total - offsetHeight ELSE 0

Clamp(x, lo, hi) == IF x < lo THEN lo ELSE IF x > hi THEN hi ELSE x

\* Quintic ease-in-out: 16 t^5 below one half, 1 - (2 - 2t)^5 / 2 from there.
easeInOutQuint(t) ==
    IF IsNaN(t) THEN NaN
    ELSE IF 2 * t.n < t.d THEN Rat(16 * Pow5(t.n), Pow5(t.d))
    ELSE Rat(Pow5(t.d) - 16 * Pow5(t.d - t.n), Pow5(t.d))

(* ---------------------------- VirtualizedList -------------------------- *)

\* The guard `animationData.animationStartTime || ...`: undefined and 0 are
\* falsy.
Truthy(t) == t # Undefined /\ t # 0

\* ellapsed = now - animationData.animationStartTime
Ellapsed(startTime, t) == IF startTime = Undefined THEN NaN ELSE Num(t - startTime)

\* easedTime = easeInOutQuint(Math.min(1, ellapsed / scrollDuration))
EasedTime(e, duration) ==
    Value({easeInOutQuint(m) :
              m \in {MathMin(Num(1), q) : q \in {Div(e, duration)}}})

\* An offset held in animationData as a number: undefined is NaN in
\* arithmetic.
Offset(v) == IF v = Undefined THEN NaN ELSE Num(v)

\* scrollDelta = scrollOffsetFinal - scrollOffsetInitial
ScrollDelta(initial, final) ==
    IF initial = Undefined \/ final = Undefined THEN NaN ELSE Num(final - initial)

\* scrollOffset = scrollOffsetInitial + scrollDelta * easedTime
ScrollOffset(initial, final, e, duration) ==
    Value({Add(Offset(initial), delta) :
              delta \in {Mul(ScrollDelta(initial, final), t) :
                             t \in {EasedTime(e, duration)}}})

\* The argument of listRef.current.scrollTo on one frame.
ScrollToArg(ad, e, duration, maxOffset) ==
    Value({MathMin(Num(maxOffset), offset) :
              offset \in {ScrollOffset(ad.scrollOffsetInitial,
                                       ad.scrollOffsetFinal, e, duration)}})

\* if (ellapsed < scrollDuration) animateScroll()
FrameContinues(e, duration) == Less(e, Num(duration))

\* NextFrames with the callback queued again whatever the branch.
NextFrames_Requeue(fs, again) == Append(Tail(fs), Head(fs))

\* The callbacks pending after the first one ran: it is queued again when it
\* called animateScroll().
NextFrames(fs, again) == IF again THEN Append(Tail(fs), Head(fs)) ELSE Tail(fs)

\* animationData after the frame: the else branch clears the start time and
\* commits the baseline.
AfterFrame(ad, again) ==
    IF again THEN ad
    ELSE [ad EXCEPT !.animationStartTime = Undefined,
                    !.scrollOffsetInitial = ad.scrollOffsetFinal]

\* onScrollCB without the test of scrollUpdateWasRequested.
onScrollCB_AlwaysCommit(ad, scrollOffset, scrollUpdateWasRequested) ==
    [ad EXCEPT !.scrollOffsetInitial = scrollOffset]

\* animationData after onScrollCB.
onScrollCB(ad, scrollOffset, scrollUpdateWasRequested) ==
    IF ~scrollUpdateWasRequested THEN [ad EXCEPT !.scrollOffsetInitial = scrollOffset]
    ELSE ad

\* The index is an ordinary object: besides its own entries it answers to
\* the names of Object.prototype.
ObjectPrototype ==
    {"constructor", "hasOwnProperty", "isPrototypeOf", "propertyIsEnumerable",
     "toLocaleString", "toString", "valueOf", "__proto__",
     "__defineGetter__", "__defineSetter__", "__lookupGetter__",
     "__lookupSetter__"}

\* A member of Object.prototype read as an item: a function or object, truthy,
\* whose offsetTop is undefined.
PrototypeMember == [offsetTop |-> Undefined]

\* normalizedItems[key]: <<entry>> for an own key, <<member>> for a name found
\* on the prototype chain, <<>> for undefined.
Lookup(normalizedItems, key) ==
    IF key \in DOMAIN normalizedItems THEN <<normalizedItems[key]>>
    ELSE IF key \in ObjectPrototype THEN <<PrototypeMember>>
    ELSE <<>>

\* The effect's lookup: <<item>> when scrollToId is truthy (of the strings
\* only the empty one is falsy; the number 0 is dropped the same way), the
\* list is mounted and normalizedItems[scrollToId] is truthy; <<>> otherwise.
EffectItem(id, list, mounted) ==
    IF id # "" /\ mounted THEN Lookup(getNormalizedItems(list), id) ELSE <<>>

\* startScrollAnimation returns early: an animation is in progress or the
\* final offset equals the item's offset.
StartBlocked(ad, offsetTop) ==
    Truthy(ad.animationStartTime) \/ ad.scrollOffsetFinal = offsetTop

\* No animation has started on this instance: the start time still holds its
\* initial 0 (a completed animation leaves undefined) and no frame is pending.
Fresh == animationData.animationStartTime = 0 /\ frames = <<>>

\* The effect on [scrollToId, startScrollAnimation, normalizedItems], run
\* after a render with the given props; animateScroll closes over duration
\* and maxOffset.
Effect(op, id, list, duration, maxOffset) ==
    LET found == EffectItem(id, list, listMounted)
        begins == found # <<>> /\ ~StartBlocked(animationData, found[1].offsetTop)
    IN  /\ begins => Len(frames) < MaxLoops
        /\ IF begins
           THEN /\ animationData' = [animationData EXCEPT
                                        !.scrollOffsetFinal = found[1].offsetTop,
                                        !.animationStartTime = now]
                /\ frames' = Append(frames, [scrollDuration |-> duration,
                                             maxListOffset |-> maxOffset])
                /\ inFlight' = inFlight + 1
           ELSE UNCHANGED <<animationData, frames, inFlight>>
        /\ last' = LET repeat == last.op = op /\ last.id = id
                   IN  [op |-> op, id |-> id, began |-> begins, repeat |-> repeat,
                        fresh |-> IF repeat THEN last.fresh ELSE Fresh]

Init ==
    /\ items \in ItemLists
    /\ scrollDuration \in Durations
    /\ offsetHeightRef = 0
    /\ listMounted = FALSE
    /\ maxListOffset = getMaxOffset(0, getNormalizedItems(items))
    /\ animationData = [scrollOffsetInitial |-> 0, scrollOffsetFinal |-> 0,
                        animationStartTime |-> 0]
    /\ scrollTopRef = Num(0)
    /\ now = 0
    /\ frames = <<>>
    /\ inFlight = 0
    /\ pending = <<>>
    /\ unmounted = FALSE
    /\ last = [op |-> "init"]

\* performance.now() advances.
Tick ==
    /\ \E t \in Times : t > now /\ now' = t
    /\ UNCHANGED <<items, scrollDuration, offsetHeightRef, listMounted, maxListOffset,
                   animationData, scrollTopRef, frames, inFlight, pending, unmounted,
                   last>>

\* The AutoSizer render callback: the container measured itself and renders
\* the List.
Resize(height) ==
    /\ ~unmounted
    /\ pending = <<>>
    /\ offsetHeightRef' = height
    /\ listMounted' = TRUE
    /\ last' = [op |-> "resize", height |-> height]
    /\ UNCHANGED <<items, scrollDuration, maxListOffset, animationData, scrollTopRef,
                   now, frames, inFlight, pending, unmounted>>

\* The List reports a scroll.
OnScroll(scrollOffset, scrollUpdateWasRequested) ==
    /\ listMounted
    /\ scrollTopRef' = Num(scrollOffset)
    /\ animationData' = onScrollCB(animationData, scrollOffset, scrollUpdateWasRequested)
    /\ last' = [op |-> "scroll", offset |-> scrollOffset,
                requested |-> scrollUpdateWasRequested]
    /\ UNCHANGED <<items, scrollDuration, offsetHeightRef, listMounted, maxListOffset,
                   now, frames, inFlight, pending, unmounted>>

\* A render with a scrollToId (a new one, or the same one with a new
\* onScrollToFinished): the effect is scheduled.
SetScrollToId(id) ==
    /\ ~unmounted
    /\ pending = <<>>
    /\ pending' = <<id>>
    /\ UNCHANGED <<items, scrollDuration, offsetHeightRef, listMounted, maxListOffset,
                   animationData, scrollTopRef, now, frames, inFlight, unmounted, last>>

\* A render with a new items array: normalizedItems and maxListOffset are
\* recomputed and the effect is scheduled.
SetItems(list, id) ==
    /\ ~unmounted
    /\ pending = <<>>
    /\ items' = list
    /\ maxListOffset' = getMaxOffset(offsetHeightRef, getNormalizedItems(list))
    /\ pending' = <<id>>
    /\ UNCHANGED <<scrollDuration, offsetHeightRef, listMounted, animationData,
                   scrollTopRef, now, frames, inFlight, unmounted, last>>

\* A render with another scrollDuration: animateScroll and
\* startScrollAnimation are new callbacks, so the effect is scheduled.
SetScrollDuration(duration, id) ==
    /\ ~unmounted
    /\ pending = <<>>
    /\ duration # scrollDuration
    /\ scrollDuration' = duration
    /\ pending' = <<id>>
    /\ UNCHANGED <<items, offsetHeightRef, listMounted, maxListOffset, animationData,
                   scrollTopRef, now, frames, inFlight, unmounted, last>>

\* The effect of the last render runs, with the callbacks of that render.
ScrollToItem(id) ==
    /\ pending = <<id>>
    /\ pending' = <<>>
    /\ Effect("scrollToItem", id, items, scrollDuration, maxListOffset)
    /\ UNCHANGED <<items, scrollDuration, offsetHeightRef, listMounted, maxListOffset,
                   scrollTopRef, now, unmounted>>

\* The component is unmounted: React clears listRef.current; nothing cancels
\* the pending frame callbacks.
Unmount ==
    /\ ~unmounted
    /\ pending = <<>>
    /\ unmounted' = TRUE
    /\ listMounted' = FALSE
    /\ last' = [op |-> "unmount"]
    /\ UNCHANGED <<items, scrollDuration, offsetHeightRef, maxListOffset, animationData,
                   scrollTopRef, now, frames, inFlight, pending>>

\* Math.max(0, x)
MathMax0(x) == IF IsNaN(x) THEN NaN ELSE IF Less(x, Num(0)) THEN Num(0) ELSE x

\* What the List reports through onScroll (scrollUpdateWasRequested: true)
\* before scrollTo(x) returns.  The List is react-window's, outside this
\* component: it may report nothing yet, the offset, or the offset floored
\* at 0.
ListReports(x) == {<<>>, <<x>>, <<MathMax0(x)>>}

\* The browser runs the first pending requestAnimationFrame callback.  With
\* listRef.current set, scrollTo may make the List call onScrollCB before the
\* callback goes on; with listRef.current null, line 77 throws and the
\* callback ends there.
Frame ==
    /\ frames # <<>>
    /\ LET f == Head(frames)
           e == Ellapsed(animationData.animationStartTime, now)
           again == FrameContinues(e, f.scrollDuration)
           value == ScrollToArg(animationData, e, f.scrollDuration, f.maxListOffset)
       IN  IF listMounted
           THEN /\ frames' = NextFrames(frames, again)
                /\ \E report \in ListReports(value) :
                      IF report = <<>>
                      THEN /\ scrollTopRef' = scrollTopRef
                           /\ animationData' = AfterFrame(animationData, again)
                      ELSE /\ scrollTopRef' = report[1]
                           /\ animationData' =
                                  AfterFrame(onScrollCB(animationData, report[1], TRUE),
                                             again)
                /\ inFlight' = IF again THEN inFlight ELSE inFlight - 1
                /\ last' = [op |-> "frame", ellapsed |-> e,
                            duration |-> f.scrollDuration, value |-> value,
                            held |-> f.maxListOffset, done |-> ~again]
           ELSE /\ frames' = Tail(frames)
                /\ last' = [op |-> "frame threw"]
                /\ UNCHANGED <<scrollTopRef, animationData, inFlight>>
    /\ UNCHANGED <<items, scrollDuration, offsetHeightRef, listMounted, maxListOffset,
                   now, pending, unmounted>>

\* The handlers of an instance whose scrollDuration prop stays as it was
\* mounted.
Next ==
    \/ Tick
    \/ \E h \in Heights : Resize(h)
    \/ \E o \in ScrollOffsets, r \in BOOLEAN : OnScroll(o, r)
    \/ \E id \in ScrollToIds : SetScrollToId(id)
    \/ \E list \in ItemLists, id \in ScrollToIds : SetItems(list, id)
    \/ \E id \in ScrollToIds : ScrollToItem(id)
    \/ Unmount
    \/ Frame

Spec == Init /\ [][Next]_vars

(* ------------------------------- claims -------------------------------- *)

\* MaxOffset as the data model defines it, for the current index and the
\* current viewport height.
CurrentMaxOffset == getMaxOffset(offsetHeightRef, getNormalizedItems(items))

\* The last handler that ran was a frame with ellapsed >= scrollDuration > 0.
FinalFrame ==
    /\ last.op = "frame"
    /\ last.done
    /\ ~IsNaN(last.ellapsed)
    /\ last.duration > 0

\* C1: on the frame where elapsed >= D (D > 0) the scroll-setter receives
\* exactly clamp(T, 0, maxOffset), with T the target offset and maxOffset =
\* max(0, totalContentHeight - viewportHeight) for the viewport height then in
\* effect.
C1_FinalFrameOnClampedTarget ==
    (FinalFrame /\ animationData.scrollOffsetFinal # Undefined) =>
        last.value = Num(Clamp(animationData.scrollOffsetFinal, 0, CurrentMaxOffset))

\* C2: completion fires exactly once per started animation: completions
\* never exceed starts; while the component is mounted the animations started
\* whose completion has not fired are exactly the pending frame loops, and a
\* frame that fires completion takes its loop out of the queue for good.
C2_CompletionOncePerAnimation ==
    /\ [](inFlight >= 0 /\ (~unmounted => inFlight = Len(frames)))
    /\ [][(Frame /\ listMounted) =>
            IF FrameContinues(Ellapsed(animationData.animationStartTime, now),
                              Head(frames).scrollDuration)
            THEN inFlight' = inFlight /\ Len(frames') = Len(frames)
            ELSE inFlight' = inFlight - 1 /\ Len(frames') = Len(frames) - 1]_vars

C2_Witness ==
    /\ FinalFrame
    /\ last.ellapsed = Num(200)
    /\ inFlight = 0
    /\ animationData.animationStartTime = Undefined

\* C3: at most one animation is in flight and at most one frame callback is
\* pending, in every reachable state.
C3_AtMostOneFrameLoop == Len(frames) <= 1

\* The offsets the pending frame loops would pass to the scroll-setter at
\* clock time t, given animationData ad.
FutureOffsets(ad, t) ==
    [i \in 1..Len(frames) |->
        ScrollToArg(ad, Ellapsed(ad.animationStartTime, t),
                    frames[i].scrollDuration, frames[i].maxListOffset)]

\* C4: a user-initiated scroll event during an animation leaves the offsets of
\* its remaining frames as they would be without the event.
C4_UserScrollLeavesFramesAlone ==
    [][\A o \in ScrollOffsets :
          (OnScroll(o, FALSE) /\ frames # <<>>) =>
              \A t \in Times :
                  t >= now => FutureOffsets(animationData', t) = FutureOffsets(animationData, t)]_vars

\* C5: a scroll event sets scrollOffsetInitial to the reported offset when it
\* is not programmatic and leaves it alone when it is; scrollOffsetFinal and
\* animationStartTime are unchanged, no frame is scheduled or cancelled and no
\* completion fires.
C5_ScrollEventFrame ==
    [][\A o \in ScrollOffsets, r \in BOOLEAN :
          OnScroll(o, r) =>
              /\ animationData'.scrollOffsetInitial =
                     (IF r THEN animationData.scrollOffsetInitial ELSE o)
              /\ animationData'.scrollOffsetFinal = animationData.scrollOffsetFinal
              /\ animationData'.animationStartTime = animationData.animationStartTime
              /\ frames' = frames
              /\ inFlight' = inFlight]_vars

C5_Witness ==
    /\ last.op = "scroll"
    /\ last.requested
    /\ frames # <<>>
    /\ scrollTopRef = Num(last.offset)
    /\ animationData.scrollOffsetInitial # last.offset

\* C6: a scrollToItem request that arrives while an animation is in flight
\* changes nothing: AnimationState is unchanged and no frame is scheduled.
C6_RequestInFlightIsNoOp ==
    [][\A id \in ScrollToIds :
          (ScrollToItem(id) /\ frames # <<>>) =>
              UNCHANGED <<animationData, frames, inFlight>>]_vars

\* The last two handlers that ran were scrollToItem calls with the same
\* identifier of a row, the first on a mounted instance with no prior
\* animation.
TwiceOnFresh ==
    /\ last.op = "scrollToItem"
    /\ last.repeat
    /\ last.fresh
    /\ listMounted
    /\ last.id \in DOMAIN getNormalizedItems(items)

\* C7: two successive scrollToItem calls with the same item identifier on an
\* instance with no prior animation start exactly one animation.  Stated for
\* a row whose offsetTop differs from the initial scrollOffsetFinal 0: a
\* request for a row at offset 0 of a fresh instance is at its target.
C7_TwiceStartsExactlyOne ==
    (TwiceOnFresh /\ getNormalizedItems(items)[last.id].offsetTop # 0) =>
        (Len(frames) = 1 /\ inFlight = 1)

\* C8: scrollToItem with an identifier that is not in the index changes
\* nothing, in every state: no animation starts, AnimationState is unchanged,
\* the scroll-setter is not called and no completion fires.
C8_MissingIdIsNoOp ==
    [][\A id \in ScrollToIds :
          (ScrollToItem(id) /\ id \notin DOMAIN getNormalizedItems(items)) =>
              /\ UNCHANGED <<animationData, frames, inFlight, scrollTopRef>>
              /\ last'.op = "scrollToItem"
              /\ ~last'.began]_vars

\* C9: the MaxOffset the animator clamps against equals
\* max(0, totalContentHeight - viewportHeight) for the current index and the
\* current viewport height, in every reachable state.
C9_MaxOffsetIsCurrent == maxListOffset = CurrentMaxOffset

\* C10: rows of heights 20, 30, 40, 10, 25, viewport height 60, duration 200:
\* scrolling to the row at index 3 (offsetTop 90) from baseline 0, the setter
\* receives the baseline on the frame at elapsed 0 and exactly 65 on the frame
\* at elapsed 200, which completes the animation.
C10_Scenario ==
    (/\ items = Scenario5
     /\ offsetHeightRef = 60
     /\ last.op = "frame"
     /\ last.duration = 200
     /\ animationData.scrollOffsetFinal = 90
     /\ Len(frames) <= 1)
    => /\ (last.ellapsed = Num(0) /\ animationData.scrollOffsetInitial = 0)
              => last.value = Num(0)
       /\ last.ellapsed = Num(200)
              => (last.value = Num(65) /\ last.done /\ inFlight = 0)

(* ------------- scrollDuration of 0 or below, and changing -------------- *)

\* Values of the scrollDuration prop that are not positive.
NonPositiveDurations == {-200, 0}

\* Instances mounted with any of the durations.
InitAnyDuration ==
    /\ items \in ItemLists
    /\ scrollDuration \in Durations \cup NonPositiveDurations
    /\ offsetHeightRef = 0
    /\ listMounted = FALSE
    /\ maxListOffset = getMaxOffset(0, getNormalizedItems(items))
    /\ animationData = [scrollOffsetInitial |-> 0, scrollOffsetFinal |-> 0,
                        animationStartTime |-> 0]
    /\ scrollTopRef = Num(0)
    /\ now = 0
    /\ frames = <<>>
    /\ inFlight = 0
    /\ pending = <<>>
    /\ unmounted = FALSE
    /\ last = [op |-> "init"]

\* The handlers of an instance that keeps its items and is also rendered
\* again with another scrollDuration.
NextAnyDuration ==
    \/ Tick
    \/ \E h \in Heights : Resize(h)
    \/ \E o \in ScrollOffsets, r \in BOOLEAN : OnScroll(o, r)
    \/ \E id \in ScrollToIds : SetScrollToId(id)
    \/ \E d \in Durations, id \in ScrollToIds : SetScrollDuration(d, id)
    \/ \E id \in ScrollToIds : ScrollToItem(id)
    \/ Unmount
    \/ Frame

SpecAnyDuration == InitAnyDuration /\ [][NextAnyDuration]_vars

\* C11: with scrollDuration 0 or negative the first frame of an animation
\* passes the final offset, clamped to the MaxOffset the animator holds, to
\* the scroll-setter, schedules no further frame, leaves the animator idle and
\* fires completion once.
C11_DegenerateDurationLandsOnFinal ==
    (/\ last.op = "frame"
     /\ last.duration <= 0
     /\ ~IsNaN(last.ellapsed)
     /\ animationData.scrollOffsetFinal # Undefined
     /\ Len(frames) = 0)
    => /\ last.done
       /\ inFlight = 0
       /\ animationData.animationStartTime = Undefined
       /\ last.value = Num(Clamp(animationData.scrollOffsetFinal, 0, last.held))

(* --------------------------- normalization ----------------------------- *)

\* Lists of at most MaxItems rows.
MaxItems == 3

\* Heights of the rows of a list.
RowHeights == {10, 20, 30}

\* Identifiers of the row at position i (from 1): its position, or a name
\* that does not sort like the positions.
RowIds == {[i \in 1..MaxItems |-> ToString(i - 1)],
           [i \in 1..MaxItems |-> ToString(MaxItems - i) \o "x"]}

\* The ordered sequences of at most MaxItems items with unique identifiers
\* and positive heights.
InputLists ==
    UNION {{[i \in 1..n |-> [id |-> ids[i], height |-> hs[i]]] :
                hs \in [1..n -> RowHeights], ids \in RowIds} : n \in 0..MaxItems}

InitNormalize ==
    /\ items \in InputLists
    /\ scrollDuration = 200
    /\ offsetHeightRef = 0
    /\ listMounted = FALSE
    /\ maxListOffset = getMaxOffset(0, getNormalizedItems(items))
    /\ animationData = [scrollOffsetInitial |-> 0, scrollOffsetFinal |-> 0,
                        animationStartTime |-> 0]
    /\ scrollTopRef = Num(0)
    /\ now = 0
    /\ frames = <<>>
    /\ inFlight = 0
    /\ pending = <<>>
    /\ unmounted = FALSE
    /\ last = [op |-> "init"]

\* The normalizedItems memo is computed for the items of the render.
Normalize ==
    /\ last' = [op |-> "normalize", input |-> items,
                normalizedItems |-> getNormalizedItems(items)]
    /\ UNCHANGED <<items, scrollDuration, offsetHeightRef, listMounted, maxListOffset,
                   animationData, scrollTopRef, now, frames, inFlight, pending,
                   unmounted>>

NextNormalize == Normalize

SpecNormalize == InitNormalize /\ [][NextNormalize]_vars

\* C12, the part about the entries: the index of n items with unique identifiers and positive heights has
\* exactly n entries, the entry of the item at position 0 has offsetTop 0 and
\* the entry at position i > 0 has offsetTop(i-1) + height(i-1); offsetTop is
\* non-decreasing in the index.
C12_NormalizedOffsets ==
    last.op = "normalize" =>
        LET index == last.normalizedItems
            n == Len(last.input)
            entry(i) == index[last.input[i].id]
        IN  /\ Cardinality(DOMAIN index) = n
            /\ DOMAIN index = {last.input[i].id : i \in 1..n}
            /\ \A i \in 1..n :
                  /\ entry(i).index = i - 1
                  /\ entry(i).height = last.input[i].height
                  /\ entry(i).offsetTop =
                         (IF i = 1 THEN 0
                          ELSE entry(i - 1).offsetTop + last.input[i - 1].height)
            /\ \A i, j \in 1..n : i <= j => entry(i).offsetTop <= entry(j).offsetTop

(* ------------------------ frames, starts, values ----------------------- *)

\* C13: the frame on which elapsed >= scrollDuration (here for a positive
\* scrollDuration) leaves animationStartTime cleared, scrollOffsetInitial
\* equal to scrollOffsetFinal and no frame callback pending; every frame with
\* elapsed < scrollDuration leaves AnimationState unchanged and schedules
\* exactly one next frame.
C13_FrameOutcome ==
    /\ []((last.op = "frame" /\ last.done /\ ~IsNaN(last.ellapsed)
            /\ last.duration > 0) =>
             /\ animationData.animationStartTime = Undefined
             /\ animationData.scrollOffsetInitial = animationData.scrollOffsetFinal
             /\ frames = <<>>)
    /\ [][(/\ Frame
            /\ listMounted
            /\ FrameContinues(Ellapsed(animationData.animationStartTime, now),
                              Head(frames).scrollDuration)) =>
             /\ animationData' = animationData
             /\ Len(frames') = Len(frames)
             /\ inFlight' = inFlight]_vars

\* What a scrollToItem call for the row at offsetTop must do on an idle
\* animator: start (new target, start time now, same baseline, one frame) when
\* offsetTop differs from the recorded scrollOffsetFinal, nothing otherwise.
IdleStartOutcome(offsetTop) ==
    IF offsetTop # animationData.scrollOffsetFinal
    THEN /\ animationData' = [scrollOffsetInitial |-> animationData.scrollOffsetInitial,
                              scrollOffsetFinal |-> offsetTop,
                              animationStartTime |-> now]
         /\ Len(frames') = 1
         /\ inFlight' = 1
    ELSE UNCHANGED <<animationData, frames, inFlight>>

\* C14: when the animator is idle, scrollToItem for an item present in the
\* index starts an animation if and only if its offsetTop differs from
\* scrollOffsetFinal; a start sets scrollOffsetFinal and animationStartTime,
\* keeps scrollOffsetInitial and schedules one frame; otherwise nothing
\* changes.  Stated for a list that is mounted (listRef.current set).
C14_IdleStartIffNewTarget ==
    [][\A id \in ScrollToIds :
          (/\ ScrollToItem(id)
           /\ frames = <<>>
           /\ listMounted
           /\ id \in DOMAIN getNormalizedItems(items)) =>
              IdleStartOutcome(getNormalizedItems(items)[id].offsetTop)]_vars

\* C15: every value passed to the scroll-setter, on every frame, lies in the
\* closed interval [0, M], M being the maximum offset that frame holds
\* (stated here for the frames of a positive scrollDuration).
C15_ScrollToWithinBounds ==
    (last.op = "frame" /\ last.duration > 0) =>
        /\ ~IsNaN(last.value)
        /\ ~Less(last.value, Num(0))
        /\ ~Less(Num(last.held), last.value)

(* ------------------------------ liveness ------------------------------- *)

\* The last clock value of the model.
MaxTime == 100 * MaxTicks

\* The clock advances and pending frame callbacks are delivered.
SpecLive == Spec /\ WF_vars(Tick) /\ WF_vars(Frame)

\* C16: with scrollDuration > 0, the clock advancing and frame callbacks
\* delivered, an animation in flight always leads to an idle animator whose
\* completion has fired, whatever scroll events and scrollToItem requests
\* arrive meanwhile.  A behaviour that reaches the last value of the modelled
\* clock with a callback still pending decides nothing and is let through.
C16_InFlightLeadsToIdle ==
    (frames # <<>> /\ scrollDuration > 0) ~>
        (\/ /\ frames = <<>>
            /\ inFlight = 0
            /\ ~Truthy(animationData.animationStartTime)
            /\ last.op = "frame"
            /\ last.done
         \/ (frames # <<>> /\ now = MaxTime))

\* C17: when an animation starts, scrollOffsetInitial equals the viewport's
\* current scroll offset: the offset the last frame of the previous animation
\* passed to the scroll-setter (also when that target was clamped), or the
\* offset of the user's scroll event, whichever came just before the start.
C17_StartsFromViewport ==
    [][(inFlight = 0 /\ inFlight' = 1) =>
          /\ (last.op = "frame" /\ last.done /\ last.duration > 0 /\ ~IsNaN(last.value)) =>
                 Offset(animationData'.scrollOffsetInitial) = last.value
          /\ (last.op = "scroll" /\ ~last.requested) =>
                 animationData'.scrollOffsetInitial = last.offset]_vars

\* C18: the in-flight marker and the frame loop agree in every reachable
\* state: animationStartTime holds a value the guard treats as in flight if
\* and only if exactly one frame callback is pending, and an idle value (the
\* initial 0 or the cleared undefined) if and only if none is pending.
C18_MarkerAgreesWithLoop ==
    /\ Truthy(animationData.animationStartTime) <=> Len(frames) = 1
    /\ ~Truthy(animationData.animationStartTime) <=> Len(frames) = 0

====
